---------------------------- MODULE Spec2Model ----------------------------
(***************************************************************************)
(* Model of markify's heuristic document-structure analyzer                *)
(* (MarkdownTransformer: analyzeTextStructure, analyzeHeading,             *)
(* isTitleCase, detectListType, blocksToMarkdown, transform) and of the    *)
(* configuration-driven rewriter (processDocument, validateMarkdown).      *)
(*                                                                         *)
(* A JavaScript string is modelled as a sequence of one-character strings. *)
(* Characters that cannot be written inside a TLA+ string literal are      *)
(* written by their code point: the grave accent is "U+0060", the bullet   *)
(* is "U+2022", the line separator is "U+2028", and so on.  An optional    *)
(* value (undefined in the source) is a sequence of length 0, a present    *)
(* value v is <<v>>.                                                       *)
(***************************************************************************)
EXTENDS Integers, Sequences, FiniteSets, TLC

(***************************************************************************)
(* Characters and character classes of the regular expressions.            *)
(***************************************************************************)
BT == "U+0060"
BULLET == "U+2022"
NL == "\n"
TAB == "\t"
CR == "\r"
VT == "U+000B"
FF == "U+000C"
LS == "U+2028"
PS == "U+2029"
BOM == "U+FEFF"
\* the space separators of Unicode other than the space itself
SpaceSeparators ==
  {"U+00A0", "U+1680", "U+2000", "U+2001", "U+2002", "U+2003", "U+2004",
   "U+2005", "U+2006", "U+2007", "U+2008", "U+2009", "U+200A", "U+202F",
   "U+205F", "U+3000"}
\* the line terminators of ECMAScript: what . does not match and what ^ under
\* the m flag matches after
LineTerminators == {NL, CR, LS, PS}

UpperSeq == <<"A","B","C","D","E","F","G","H","I","J","K","L","M",
              "N","O","P","Q","R","S","T","U","V","W","X","Y","Z">>
LowerSeq == <<"a","b","c","d","e","f","g","h","i","j","k","l","m",
              "n","o","p","q","r","s","t","u","v","w","x","y","z">>
DigitSeq == <<"0","1","2","3","4","5","6","7","8","9">>

Range(s) == {s[i] : i \in DOMAIN s}
Upper == Range(UpperSeq)
Lower == Range(LowerSeq)
Digit == Range(DigitSeq)
Letter == Upper \cup Lower
\* \w of a regular expression
WordChar == Letter \cup Digit \cup {"_"}
\* \s of a regular expression, and what String.prototype.trim strips
WhiteSpace == {" ", TAB, VT, FF, BOM} \cup SpaceSeparators \cup LineTerminators

\* the canonical form a character is compared in under the i flag
ToLowerChar(c) ==
  IF c \in Upper THEN LowerSeq[CHOOSE i \in DOMAIN UpperSeq : UpperSeq[i] = c]
  ELSE c

ToLower(s) == [i \in DOMAIN s |-> ToLowerChar(s[i])]

DigitValue(c) == (CHOOSE i \in DOMAIN DigitSeq : DigitSeq[i] = c) - 1

(***************************************************************************)
(* String primitives of the JavaScript runtime.                            *)
(***************************************************************************)
\* s.slice(n): s without its first n characters
Drop(s, n) == IF n >= Len(s) THEN <<>> ELSE SubSeq(s, n + 1, Len(s))

\* s.slice(0, n)
Take(s, n) == IF n <= 0 THEN <<>> ELSE SubSeq(s, 1, IF n > Len(s) THEN Len(s) ELSE n)

StartsWith(s, p) == Len(s) >= Len(p) /\ SubSeq(s, 1, Len(p)) = p

EndsWith(s, p) == Len(s) >= Len(p) /\ SubSeq(s, Len(s) - Len(p) + 1, Len(s)) = p

\* length of the longest prefix of s whose characters are all in class
RECURSIVE RunLength(_, _)
RunLength(s, class) ==
  IF s # <<>> /\ Head(s) \in class THEN 1 + RunLength(Tail(s), class) ELSE 0

RECURSIVE TrimRight(_)
TrimRight(s) ==
  IF s # <<>> /\ s[Len(s)] \in WhiteSpace THEN TrimRight(SubSeq(s, 1, Len(s) - 1))
  ELSE s

\* String.prototype.trim
Trim(s) == TrimRight(Drop(s, RunLength(s, WhiteSpace)))

\* s.split(sep) for a one-character separator: never empty, "" gives <<"">>
Split(s, sep) ==
  LET seps == {i \in DOMAIN s : s[i] = sep}
      \* the position of the j-th separator, 0 and Len(s) + 1 standing for the
      \* two ends of s
      cut(j) == IF j = 0 THEN 0
                ELSE IF j > Cardinality(seps) THEN Len(s) + 1
                ELSE CHOOSE i \in seps : Cardinality({x \in seps : x <= i}) = j
  IN  [j \in 1..(Cardinality(seps) + 1) |-> SubSeq(s, cut(j - 1) + 1, cut(j) - 1)]

\* pieces.join(sep)
RECURSIVE Join(_, _)
Join(pieces, sep) ==
  IF pieces = <<>> THEN <<>>
  ELSE IF Len(pieces) = 1 THEN pieces[1]
  ELSE pieces[1] \o <<sep>> \o Join(Tail(pieces), sep)

\* c.repeat(n) for n >= 0
Repeat(c, n) == [i \in 1..n |-> c]

\* number of matches of the global regular expression /p/g for a literal p
RECURSIVE CountOccurrences(_, _)
CountOccurrences(s, p) ==
  LET starts == {i \in 0..(Len(s) - Len(p)) : StartsWith(Drop(s, i), p)}
  IN  IF starts = {} THEN 0
      ELSE LET first == CHOOSE i \in starts : \A j \in starts : i <= j
           IN  1 + CountOccurrences(Drop(s, first + Len(p)), p)

\* the decimal digits of a natural number, as template literals print it
RECURSIVE NatToString(_)
NatToString(n) ==
  IF n < 10 THEN <<DigitSeq[n + 1]>>
  ELSE NatToString(n \div 10) \o <<DigitSeq[(n % 10) + 1]>>

RECURSIVE DigitsValue(_, _)
DigitsValue(s, acc) ==
  IF s # <<>> /\ Head(s) \in Digit
  THEN DigitsValue(Tail(s), 10 * acc + DigitValue(Head(s)))
  ELSE acc

\* parseInt(s, 10) for an unsigned numeral: <<>> stands for NaN
ParseInt(s) ==
  LET t == Drop(s, RunLength(s, WhiteSpace))
  IN  IF t # <<>> /\ Head(t) \in Digit THEN <<DigitsValue(t, 0)>> ELSE <<>>

(***************************************************************************)
(* Block: type, content and metadata (level, listType, listIndex).  A      *)
(* metadata field the source leaves undefined is <<>>; listType is "none"  *)
(* when the block has no metadata.listType.                                *)
(***************************************************************************)
NoMeta == [level |-> <<>>, listType |-> "none", listIndex |-> <<>>]

MkBlock(type, content, metadata) ==
  [type |-> type, content |-> content, metadata |-> metadata]

\* the value of currentBlock when it is null
NoBlock == MkBlock("null", <<>>, NoMeta)

(***************************************************************************)
(* this.listPatterns: each pattern gives the length of its match at the    *)
(* start of the line (0: no match) and its capture group 1.                *)
(***************************************************************************)
BulletMarkers == {"-", "*", "+"}

\* /^\s*([-*+])\s+/
BulletPattern(line) ==
  LET n0 == RunLength(line, WhiteSpace)
      r0 == Drop(line, n0)
      n1 == RunLength(Drop(r0, 1), WhiteSpace)
  IN  IF r0 # <<>> /\ Head(r0) \in BulletMarkers /\ n1 >= 1
      THEN [len |-> n0 + 1 + n1, group1 |-> <<Head(r0)>>]
      ELSE [len |-> 0, group1 |-> <<>>]

\* /^\s*\d+[\.)]\s+/ : no capture group
NumberedPattern(line) ==
  LET n0 == RunLength(line, WhiteSpace)
      r0 == Drop(line, n0)
      nd == RunLength(r0, Digit)
      r1 == Drop(r0, nd)
      n1 == RunLength(Drop(r1, 1), WhiteSpace)
  IN  IF nd >= 1 /\ r1 # <<>> /\ Head(r1) \in {".", ")"} /\ n1 >= 1
      THEN [len |-> n0 + nd + 1 + n1, group1 |-> <<>>]
      ELSE [len |-> 0, group1 |-> <<>>]

\* /^\s*[a-zA-Z][\.)]\s+/ : no capture group
LetteredPattern(line) ==
  LET n0 == RunLength(line, WhiteSpace)
      r0 == Drop(line, n0)
      r1 == Drop(r0, 1)
      n1 == RunLength(Drop(r1, 1), WhiteSpace)
  IN  IF r0 # <<>> /\ Head(r0) \in Letter /\ r1 # <<>> /\ Head(r1) \in {".", ")"}
         /\ n1 >= 1
      THEN [len |-> n0 + 2 + n1, group1 |-> <<>>]
      ELSE [len |-> 0, group1 |-> <<>>]

\* /^\s*\(\d+\)\s+/ : no capture group
ParenthesizedPattern(line) ==
  LET n0 == RunLength(line, WhiteSpace)
      r0 == Drop(line, n0)
      nd == RunLength(Drop(r0, 1), Digit)
      r1 == Drop(r0, 1 + nd)
      n1 == RunLength(Drop(r1, 1), WhiteSpace)
  IN  IF r0 # <<>> /\ Head(r0) = "(" /\ nd >= 1 /\ r1 # <<>> /\ Head(r1) = ")"
         /\ n1 >= 1
      THEN [len |-> n0 + 1 + nd + 1 + n1, group1 |-> <<>>]
      ELSE [len |-> 0, group1 |-> <<>>]

listPatterns(line) ==
  <<BulletPattern(line), NumberedPattern(line), LetteredPattern(line),
    ParenthesizedPattern(line)>>

\* /^\s*\d+[\.)]/, the test that decides the list type
DigitMarkerTest(line) ==
  LET r0 == Drop(line, RunLength(line, WhiteSpace))
      nd == RunLength(r0, Digit)
      r1 == Drop(r0, nd)
  IN  nd >= 1 /\ r1 # <<>> /\ Head(r1) \in {".", ")"}

\* mutant of detectListType: the type follows the pattern that matched, every
\* pattern but the bullet one giving a numbered item
detectListTypeByPattern(line) ==
  LET ms == listPatterns(line)
      hits == {i \in DOMAIN ms : ms[i].len > 0}
  IN  IF hits = {}
      THEN [found |-> FALSE, type |-> "none", pattern |-> 0, len |-> 0, index |-> <<>>]
      ELSE LET p == CHOOSE i \in hits : \A j \in hits : i <= j
           IN  [found |-> TRUE,
                type |-> IF p # 1 THEN "numbered" ELSE "bullet",
                pattern |-> p,
                len |-> ms[p].len,
                index |-> ms[p].group1]

\* found = FALSE is the null result; pattern is the position in listPatterns
\* of the first pattern that matches, len the length of its match, index its
\* capture group 1 (match[1])
detectListType(line) ==
  LET ms == listPatterns(line)
      hits == {i \in DOMAIN ms : ms[i].len > 0}
  IN  IF hits = {}
      THEN [found |-> FALSE, type |-> "none", pattern |-> 0, len |-> 0, index |-> <<>>]
      ELSE LET p == CHOOSE i \in hits : \A j \in hits : i <= j
           IN  [found |-> TRUE,
                type |-> IF DigitMarkerTest(line) THEN "numbered" ELSE "bullet",
                pattern |-> p,
                len |-> ms[p].len,
                index |-> ms[p].group1]

(***************************************************************************)
(* this.metadataPatterns, in insertion order, with the level of each.      *)
(***************************************************************************)
AllIn(s, class) == \A i \in DOMAIN s : s[i] \in class

\* /^r\/[a-zA-Z0-9_]+$/
SubredditPattern(line) ==
  StartsWith(line, <<"r", "/">>) /\ Len(line) > 2 /\ AllIn(Drop(line, 2), WordChar)

\* /^\/r\/[a-zA-Z0-9_]+$/
SlashSubredditPattern(line) ==
  StartsWith(line, <<"/", "r", "/">>) /\ Len(line) > 3 /\ AllIn(Drop(line, 3), WordChar)

SectionWords == {<<"a","b","o","u","t">>, <<"d","e","s","c","r","i","p","t","i","o","n">>, <<"o","v","e","r","v","i","e","w">>, <<"r","u","l","e","s">>, <<"i","n","f","o","r","m","a","t","i","o","n">>}
StatusWords == {<<"c","r","e","a","t","e","d">>, <<"m","e","m","b","e","r","s">>, <<"o","n","l","i","n","e">>, <<"p","u","b","l","i","c">>, <<"p","r","i","v","a","t","e">>, <<"r","e","s","t","r","i","c","t","e","d">>}
RankWords == {<<"r","a","n","k">>, <<"s","t","a","t","u","s">>, <<"c","a","t","e","g","o","r","y">>, <<"t","y","p","e">>}
RoleWords == {<<"u","s","e","r">>, <<"m","o","d","e","r","a","t","o","r">>, <<"a","d","m","i","n">>, <<"a","u","t","h","o","r">>}
RoleSuffixes == {<<"f","l","a","i","r">>, <<"i","n","f","o">>, <<"d","e","t","a","i","l","s">>}

\* /^(About|Description|Overview|Rules|Information)$/i
SectionPattern(line) == ToLower(line) \in SectionWords

\* /^(Created|Members|Online|Public|Private|Restricted)$/i
StatusPattern(line) == ToLower(line) \in StatusWords

\* /^(Rank|Status|Category|Type)(\s+by\s+\w+)?$/i
RankPattern(line) ==
  \E w \in RankWords :
    /\ StartsWith(ToLower(line), w)
    /\ LET rest == Drop(ToLower(line), Len(w))
           n1 == RunLength(rest, WhiteSpace)
           r1 == Drop(rest, n1)
           n2 == RunLength(Drop(r1, 2), WhiteSpace)
           r2 == Drop(r1, 2 + n2)
       IN  \/ rest = <<>>
           \/ /\ n1 >= 1
              /\ StartsWith(r1, <<"b", "y">>)
              /\ n2 >= 1
              /\ r2 # <<>>
              /\ AllIn(r2, WordChar)

\* /^(User|Moderator|Admin|Author)s?\s*(flair|info|details)?$/i
RolePattern(line) ==
  \E w \in RoleWords :
    /\ StartsWith(ToLower(line), w)
    /\ \E plural \in {0, 1} :
         LET rest == Drop(ToLower(line), Len(w))
             r1 == Drop(rest, plural)
             r2 == Drop(r1, RunLength(r1, WhiteSpace))
         IN  /\ plural = 1 => StartsWith(rest, <<"s">>)
             /\ r2 \in RoleSuffixes \cup {<<>>}

\* /^u\/[a-zA-Z0-9_-]+$/
UserMentionPattern(line) ==
  StartsWith(line, <<"u", "/">>) /\ Len(line) > 2
  /\ AllIn(Drop(line, 2), WordChar \cup {"-"})

\* the entries of the Map in iteration order: <<pattern.test(line), level>>
metadataPatterns(line) ==
  << <<SubredditPattern(line), 1>>,
     <<SlashSubredditPattern(line), 1>>,
     <<SectionPattern(line), 2>>,
     <<StatusPattern(line), 3>>,
     <<RankPattern(line), 3>>,
     <<RolePattern(line), 4>>,
     <<UserMentionPattern(line), 4>> >>

(***************************************************************************)
(* isTitleCase and analyzeHeading.                                         *)
(***************************************************************************)
\* the length under which a title-case line is taken for a heading
TitleCaseMaxLength == 60

\* /^[A-Z][a-z]/.test(word) || /^[A-Z]+$/.test(word)
IsTitleCaseWord(word) ==
  \/ Len(word) >= 2 /\ word[1] \in Upper /\ word[2] \in Lower
  \/ word # <<>> /\ AllIn(word, Upper)

\* titleCaseWords.length / words.length > 0.6, in whole numbers
isTitleCase(line) ==
  LET words == Split(line, " ")
      titleCaseWords == {i \in DOMAIN words : IsTitleCaseWord(words[i])}
  IN  10 * Cardinality(titleCaseWords) > 6 * Len(words)

\* /^(#{1,6})\s+(.*)/ : hashes is the length of group 1 (0: no match)
AtxMatch(line) ==
  LET nh == RunLength(line, {"#"})
      n1 == RunLength(Drop(line, nh), WhiteSpace)
      rest == Drop(line, nh + n1)
      \* . matches no line terminator
      terminators == {i \in DOMAIN rest : rest[i] \in LineTerminators}
  IN  IF nh >= 1 /\ nh <= 6 /\ n1 >= 1
      THEN [hashes |-> nh,
            group2 |-> IF terminators = {} THEN rest
                       ELSE Take(rest, (CHOOSE i \in terminators :
                                          \A j \in terminators : i <= j) - 1)]
      ELSE [hashes |-> 0, group2 |-> <<>>]

\* /^===+$/ and /^---+$/
IsUnderline(line, c) == Len(line) >= 3 /\ AllIn(line, {c})

Heading(text, level) ==
  [isHeading |-> TRUE, headingText |-> text, remainingContent |-> <<>>,
   level |-> <<level>>]

\* mutant of analyzeHeading: a line of exactly TitleCaseMaxLength characters is
\* still a title-case heading
analyzeHeadingInclusive(line, lines, index) ==
  LET atxMatch == AtxMatch(line)
      mp == metadataPatterns(line)
      hits == {i \in DOMAIN mp : mp[i][1]}
  IN  IF atxMatch.hashes > 0
      THEN Heading(Trim(atxMatch.group2), atxMatch.hashes)
      ELSE IF index < Len(lines) - 1 /\ IsUnderline(lines[index + 2], "=")
      THEN Heading(Trim(line), 1)
      ELSE IF index < Len(lines) - 1 /\ IsUnderline(lines[index + 2], "-")
      THEN Heading(Trim(line), 2)
      ELSE IF hits # {}
      THEN Heading(Trim(line), mp[CHOOSE i \in hits : \A j \in hits : i <= j][2])
      ELSE IF isTitleCase(line) /\ Len(line) <= TitleCaseMaxLength
      THEN Heading(Trim(line), 2)
      ELSE [isHeading |-> FALSE, headingText |-> <<>>, remainingContent |-> line,
            level |-> <<>>]

\* line is the trimmed line, lines the split text, index the 0-based index
analyzeHeading(line, lines, index) ==
  LET atxMatch == AtxMatch(line)
      mp == metadataPatterns(line)
      hits == {i \in DOMAIN mp : mp[i][1]}
  IN  IF atxMatch.hashes > 0
      THEN Heading(Trim(atxMatch.group2), atxMatch.hashes)
      ELSE IF index < Len(lines) - 1 /\ IsUnderline(lines[index + 2], "=")
      THEN Heading(Trim(line), 1)
      ELSE IF index < Len(lines) - 1 /\ IsUnderline(lines[index + 2], "-")
      THEN Heading(Trim(line), 2)
      ELSE IF hits # {}
      THEN Heading(Trim(line), mp[CHOOSE i \in hits : \A j \in hits : i <= j][2])
      ELSE IF isTitleCase(line) /\ Len(line) < TitleCaseMaxLength
      THEN Heading(Trim(line), 2)
      ELSE [isHeading |-> FALSE, headingText |-> <<>>, remainingContent |-> line,
            level |-> <<>>]

(***************************************************************************)
(* analyzeTextStructure: the state of the loop over the lines is the       *)
(* record [blocks, currentBlock, inCodeBlock, codeBlockContent].  Three    *)
(* more fields record, for the properties only, which source lines (by     *)
(* 0-based index) each block was built from: srcLines[i] for blocks[i],    *)
(* currentSrc for currentBlock, codeSrc for the code block being           *)
(* accumulated.  No branch reads them.                                     *)
(***************************************************************************)
Fence == <<BT, BT, BT>>

InitialState ==
  [blocks |-> <<>>, currentBlock |-> NoBlock, inCodeBlock |-> FALSE,
   codeBlockContent |-> <<>>, srcLines |-> <<>>, currentSrc |-> {}, codeSrc |-> {}]

\* blocks.push(currentBlock)
PushCurrent(st) ==
  [st EXCEPT !.blocks = Append(st.blocks, st.currentBlock),
             !.srcLines = Append(st.srcLines, st.currentSrc)]

\* a line whose trimmed text starts with the fence, while in a code block
CloseFence(st, index) ==
  [st EXCEPT !.inCodeBlock = FALSE,
             !.blocks = Append(st.blocks, MkBlock("code", st.codeBlockContent, NoMeta)),
             !.codeBlockContent = <<>>,
             !.srcLines = Append(st.srcLines, st.codeSrc \cup {index}),
             !.codeSrc = {}]

\* mutant of OpenFence: the open block is pushed when code mode is entered
OpenFenceFlushing(st, index) ==
  LET flushed == IF st.currentBlock # NoBlock
                 THEN [PushCurrent(st) EXCEPT !.currentBlock = NoBlock, !.currentSrc = {}]
                 ELSE st
  IN  [flushed EXCEPT !.inCodeBlock = TRUE, !.codeSrc = {index}]

\* a line whose trimmed text starts with the fence, outside a code block
OpenFence(st, index) ==
  [st EXCEPT !.inCodeBlock = TRUE, !.codeSrc = {index}]

\* mutant of AccumulateCode: the line is put before what was accumulated
AccumulateCodePrepended(st, line, index) ==
  [st EXCEPT !.codeBlockContent = line \o <<NL>> \o st.codeBlockContent,
             !.codeSrc = st.codeSrc \cup {index}]

\* codeBlockContent += line + '\n'
AccumulateCode(st, line, index) ==
  [st EXCEPT !.codeBlockContent = st.codeBlockContent \o line \o <<NL>>,
             !.codeSrc = st.codeSrc \cup {index}]

\* an empty line
FlushOnBlank(st) ==
  IF st.currentBlock # NoBlock /\ st.currentBlock.type # "list"
  THEN [PushCurrent(st) EXCEPT !.currentBlock = NoBlock, !.currentSrc = {}]
  ELSE st

\* trimmedLine.replace(/^>\s?/, '')
QuoteContent(trimmedLine) ==
  LET rest == Drop(trimmedLine, 1)
  IN  IF rest # <<>> /\ Head(rest) \in WhiteSpace THEN Drop(rest, 1) ELSE rest

\* a line whose trimmed text starts with '>'
QuoteLine(st, trimmedLine, index) ==
  LET quoteContent == QuoteContent(trimmedLine)
  IN  IF st.currentBlock # NoBlock /\ st.currentBlock.type = "quote"
      THEN [st EXCEPT !.currentBlock.content = @ \o <<NL>> \o quoteContent,
                      !.currentSrc = @ \cup {index}]
      ELSE [(IF st.currentBlock # NoBlock THEN PushCurrent(st) ELSE st)
              EXCEPT !.currentBlock = MkBlock("quote", quoteContent, NoMeta),
                     !.currentSrc = {index}]

\* a line detectListType matches
ListLine(st, line, index) ==
  LET listMatch == detectListType(line)
      flushed == IF st.currentBlock # NoBlock /\ st.currentBlock.type # "list"
                 THEN [PushCurrent(st) EXCEPT !.currentBlock = NoBlock, !.currentSrc = {}]
                 ELSE st
      listItemContent == Trim(Drop(line, listMatch.len))
      item == MkBlock("list", listItemContent,
                      [level |-> <<>>,
                       listType |-> listMatch.type,
                       listIndex |-> IF listMatch.type = "numbered"
                                     THEN ParseInt(IF listMatch.index # <<>>
                                                   THEN listMatch.index ELSE <<"1">>)
                                     ELSE <<>>])
  IN  [flushed EXCEPT !.blocks = Append(flushed.blocks, item),
                      !.srcLines = Append(flushed.srcLines, {index})]

\* mutant of HeadingLine: the heading is held as the open block
HeadingLineHeldOpen(st, headingAnalysis, index) ==
  LET flushed == IF st.currentBlock # NoBlock THEN PushCurrent(st) ELSE st
      heading == MkBlock("heading", headingAnalysis.headingText,
                         [level |-> headingAnalysis.level, listType |-> "none",
                          listIndex |-> <<>>])
  IN  [flushed EXCEPT !.currentBlock = heading, !.currentSrc = {index}]

\* a line analyzeHeading takes for a heading
HeadingLine(st, headingAnalysis, index) ==
  LET flushed == IF st.currentBlock # NoBlock THEN PushCurrent(st) ELSE st
      heading == MkBlock("heading", headingAnalysis.headingText,
                         [level |-> headingAnalysis.level, listType |-> "none",
                          listIndex |-> <<>>])
  IN  [flushed EXCEPT
         !.blocks = Append(flushed.blocks, heading),
         !.srcLines = Append(flushed.srcLines, {index}),
         !.currentBlock = IF headingAnalysis.remainingContent # <<>>
                          THEN MkBlock("paragraph", headingAnalysis.remainingContent, NoMeta)
                          ELSE NoBlock,
         !.currentSrc = IF headingAnalysis.remainingContent # <<>> THEN {index} ELSE {}]

\* any other line: a regular paragraph
ParagraphLine(st, trimmedLine, index) ==
  IF st.currentBlock = NoBlock
  THEN [st EXCEPT !.currentBlock = MkBlock("paragraph", trimmedLine, NoMeta),
                  !.currentSrc = {index}]
  ELSE IF st.currentBlock.type = "paragraph"
  THEN [st EXCEPT !.currentBlock.content = @ \o <<" ">> \o trimmedLine,
                  !.currentSrc = @ \cup {index}]
  ELSE [PushCurrent(st) EXCEPT !.currentBlock = MkBlock("paragraph", trimmedLine, NoMeta),
                               !.currentSrc = {index}]

\* which branch of the loop body the line at 0-based index takes
LineBranch(inCode, lines, index) ==
  LET line == lines[index + 1]
      trimmedLine == Trim(line)
  IN  IF StartsWith(trimmedLine, Fence)
      THEN (IF inCode THEN "closeFence" ELSE "openFence")
      ELSE IF inCode THEN "code"
      ELSE IF trimmedLine = <<>> THEN "blank"
      ELSE IF StartsWith(trimmedLine, <<">">>) THEN "quote"
      ELSE IF detectListType(line).found THEN "list"
      ELSE IF analyzeHeading(trimmedLine, lines, index).isHeading THEN "heading"
      ELSE "paragraph"

\* the body of lines.forEach((line, index) => ...)
Step(st, lines, index) ==
  LET line == lines[index + 1]
      trimmedLine == Trim(line)
      branch == LineBranch(st.inCodeBlock, lines, index)
  IN  CASE branch = "closeFence" -> CloseFence(st, index)
        [] branch = "openFence" -> OpenFence(st, index)
        [] branch = "code" -> AccumulateCode(st, line, index)
        [] branch = "blank" -> FlushOnBlank(st)
        [] branch = "quote" -> QuoteLine(st, trimmedLine, index)
        [] branch = "list" -> ListLine(st, line, index)
        [] branch = "heading" ->
             HeadingLine(st, analyzeHeading(trimmedLine, lines, index), index)
        [] OTHER -> ParagraphLine(st, trimmedLine, index)

\* after the loop: if (currentBlock) blocks.push(currentBlock)
FinishAnalysis(st) == IF st.currentBlock # NoBlock THEN PushCurrent(st) ELSE st

RECURSIVE AnalyzeFrom(_, _, _)
AnalyzeFrom(st, lines, index) ==
  IF index >= Len(lines) THEN FinishAnalysis(st)
  ELSE AnalyzeFrom(Step(st, lines, index), lines, index + 1)

\* analyzeTextStructure(text), the blocks it returns
analyzeTextStructure(text) == AnalyzeFrom(InitialState, Split(text, NL), 0).blocks

(***************************************************************************)
(* blocksToMarkdown and transform.                                         *)
(***************************************************************************)
\* one iteration of blocks.forEach: r is [markdown, listType, listStarted]
RenderBlock(r, block) ==
  CASE block.type = "heading" ->
         [r EXCEPT !.markdown = @ \o Repeat("#", IF block.metadata.level # <<>>
                                                    /\ block.metadata.level[1] # 0
                                                 THEN block.metadata.level[1] ELSE 1)
                                  \o <<" ">> \o block.content \o <<NL, NL>>]
    [] block.type = "paragraph" ->
         [r EXCEPT !.markdown = @ \o block.content \o <<NL, NL>>]
    [] block.type = "list" ->
         LET restart == ~r.listStarted \/ r.listType # block.metadata.listType
             listType == IF restart
                         THEN (IF block.metadata.listType # "none"
                               THEN block.metadata.listType ELSE "bullet")
                         ELSE r.listType
             prefix == IF listType = "numbered" /\ block.metadata.listIndex # <<>>
                          /\ block.metadata.listIndex[1] # 0
                       THEN NatToString(block.metadata.listIndex[1]) \o <<".", " ">>
                       ELSE <<"-", " ">>
         IN  [markdown |-> r.markdown \o prefix \o block.content \o <<NL>>,
              listType |-> listType,
              listStarted |-> r.listStarted \/ restart]
    [] block.type = "code" ->
         [r EXCEPT !.markdown = @ \o Fence \o <<NL>> \o block.content \o Fence \o <<NL, NL>>]
    [] block.type = "quote" ->
         [r EXCEPT !.markdown = @ \o <<">", " ">> \o block.content \o <<NL, NL>>]
    [] OTHER -> r

RECURSIVE RenderFrom(_, _)
RenderFrom(r, blocks) ==
  IF blocks = <<>> THEN r ELSE RenderFrom(RenderBlock(r, Head(blocks)), Tail(blocks))

blocksToMarkdown(blocks) ==
  Trim(RenderFrom([markdown |-> <<>>, listType |-> "null", listStarted |-> FALSE],
                  blocks).markdown)

transform(text) == blocksToMarkdown(analyzeTextStructure(text))

(***************************************************************************)
(* validateMarkdown.                                                       *)
(***************************************************************************)
\* /^#{1,6} [^\n]+/ at the start of one line
HeaderLineTest(line) ==
  LET nh == RunLength(line, {"#"})
      rest == Drop(line, nh)
  IN  nh >= 1 /\ nh <= 6 /\ Len(rest) >= 2 /\ Head(rest) = " "

\* under the m flag ^ matches at the start and after a line terminator
validateMarkdown(markdown) ==
  LET mdLines == Split(markdown, NL)
      hasValidHeaders ==
        \E i \in DOMAIN mdLines : \E k \in 0..Len(mdLines[i]) :
          /\ k = 0 \/ mdLines[i][k] \in LineTerminators
          /\ HeaderLineTest(Drop(mdLines[i], k))
      hasBalancedEmphasis == CountOccurrences(markdown, <<"*">>) % 2 = 0
      hasBalancedCodeBlocks == CountOccurrences(markdown, Fence) % 2 = 0
  IN  hasValidHeaders /\ hasBalancedEmphasis /\ hasBalancedCodeBlocks

(***************************************************************************)
(* processDocument.  A configuration is the record [headingDepth,          *)
(* listStyle, paragraphSpacing, emphasisStyle, codeBlockStyle]; the result *)
(* is [error, markdown], error being "none" when the call returns and the  *)
(* name of the exception when it throws.                                   *)
(***************************************************************************)
\* [^.!?]*[:.\n] matches at the start of s
HeaderTailMatch(s) ==
  LET m == RunLength(s, Range(s) \ {".", "!", "?"})
  IN  \/ \E i \in 1..m : s[i] \in {":", NL}
      \/ m < Len(s) /\ s[m + 1] = "."

\* /^[A-Z][^.!?]*[:.\n]/
HeaderTest(line) ==
  line # <<>> /\ Head(line) \in Upper /\ HeaderTailMatch(Tail(line))

\* the lookahead (?=\n[A-Z][^.!?]*[:.\n]) holds at the start of s
SectionLookahead(s) == s # <<>> /\ Head(s) = NL /\ HeaderTest(Tail(s))

\* text.split(/(?=\n[A-Z][^.!?]*[:.\n])/g): a cut at every position but the
\* first where the lookahead holds
RECURSIVE SplitSections(_)
SplitSections(s) ==
  LET cuts == {q \in 1..(Len(s) - 1) : SectionLookahead(Drop(s, q))}
  IN  IF cuts = {} THEN <<s>>
      ELSE LET q == CHOOSE c \in cuts : \A d \in cuts : c <= d
           IN  <<Take(s, q)>> \o SplitSections(Drop(s, q))

\* s.replace(/D([^D]+)D/g, 'R$1R') where D is n times the character d and R is
\* n times r
RECURSIVE ReplaceDelimited(_, _, _, _)
ReplaceDelimited(s, d, n, r) ==
  IF s = <<>> THEN <<>>
  ELSE LET body == Drop(s, n)
           m == RunLength(body, Range(body) \ {d})
       IN  IF StartsWith(s, Repeat(d, n)) /\ m >= 1
              /\ StartsWith(Drop(body, m), Repeat(d, n))
           THEN Repeat(r, n) \o Take(body, m) \o Repeat(r, n)
                  \o ReplaceDelimited(Drop(body, m + n), d, n, r)
           ELSE <<Head(s)>> \o ReplaceDelimited(Tail(s), d, n, r)

\* the emphasis conversion of one line
ConvertEmphasis(line, config) ==
  IF config.emphasisStyle = "asterisk"
  THEN ReplaceDelimited(ReplaceDelimited(line, "_", 1, "*"), "_", 2, "*")
  ELSE ReplaceDelimited(ReplaceDelimited(line, "*", 1, "_"), "*", 2, "_")

\* /^\d+\./ : the length of the match (0: no match)
NumberMarker(line) ==
  LET nd == RunLength(line, Digit)
  IN  IF nd >= 1 /\ Len(line) > nd /\ line[nd + 1] = "." THEN nd + 1 ELSE 0

\* the list conversion of one trimmed line; markdown is the output so far
ConvertList(line, markdown, config) ==
  IF NumberMarker(line) > 0
  THEN (IF config.listStyle = "bullet"
        THEN <<"*", " ">> \o Trim(Drop(line, NumberMarker(line)))
        ELSE line)
  ELSE IF line # <<>> /\ Head(line) \in {"-", "*", BULLET}
  THEN (IF config.listStyle = "numbered"
        THEN LET emitted == Split(markdown, NL)
                 listNumber ==
                   Cardinality({i \in DOMAIN emitted : NumberMarker(emitted[i]) > 0}) + 1
             IN  NatToString(listNumber) \o <<".", " ">> \o Trim(Drop(line, 1))
        ELSE line)
  ELSE line

FourSpaces == <<" ", " ", " ", " ">>
FenceNL == Fence \o <<NL>>

\* /^( {4}|\t)/ : the length of the match (0: no match)
IndentMarker(line) ==
  IF StartsWith(line, FourSpaces) THEN Len(FourSpaces)
  ELSE IF StartsWith(line, <<TAB>>) THEN 1
  ELSE 0

\* one iteration of lines.forEach: acc is [markdown, currentParagraph]
RewriteLine(acc, rawLine, config) ==
  LET trimmed == Trim(rawLine)
      converted == ConvertEmphasis(ConvertList(trimmed, acc.markdown, config), config)
      indented == IndentMarker(converted) > 0
      fenced == config.codeBlockStyle = "fenced"
      markdown1 ==
        IF indented
        THEN (IF fenced /\ ~EndsWith(acc.markdown, FenceNL)
              THEN acc.markdown \o FenceNL ELSE acc.markdown)
        ELSE (IF EndsWith(acc.markdown, FenceNL) /\ fenced
              THEN acc.markdown \o FenceNL \o <<NL>> ELSE acc.markdown)
      line == IF indented /\ fenced THEN Drop(converted, IndentMarker(converted))
              ELSE converted
  IN  IF line = <<>>
      THEN (IF acc.currentParagraph # <<>>
            THEN [markdown |-> markdown1 \o acc.currentParagraph \o <<NL>>
                                 \o (IF config.paragraphSpacing = "double"
                                     THEN <<NL>> ELSE <<>>),
                  currentParagraph |-> <<>>]
            ELSE [markdown |-> markdown1, currentParagraph |-> <<>>])
      ELSE [markdown |-> markdown1,
            currentParagraph |-> acc.currentParagraph
                                   \o (IF acc.currentParagraph # <<>> THEN <<" ">> ELSE <<>>)
                                   \o line]

RECURSIVE RewriteLines(_, _, _)
RewriteLines(acc, ls, config) ==
  IF ls = <<>> THEN acc
  ELSE RewriteLines(RewriteLine(acc, Head(ls), config), Tail(ls), config)

\* one iteration of sections.forEach: out is [error, markdown]
RewriteSection(out, section, config) ==
  LET ls == Split(Trim(section), NL)
      currentLine == ls[1]
      isHeader == HeaderTest(currentLine)
      headerLevel == IF config.headingDepth < 3 THEN config.headingDepth ELSE 3
      withHeader == IF isHeader
                    THEN out.markdown \o Repeat("#", headerLevel) \o <<" ">>
                           \o Trim(currentLine) \o <<NL, NL>>
                    ELSE out.markdown
      acc == RewriteLines([markdown |-> withHeader, currentParagraph |-> <<>>],
                          IF isHeader THEN Tail(ls) ELSE ls, config)
  IN  IF out.error # "none" THEN out
      \* '#'.repeat(count) throws a RangeError for a negative count
      ELSE IF isHeader /\ headerLevel < 0
      THEN [error |-> "RangeError", markdown |-> <<>>]
      ELSE [error |-> "none",
            markdown |-> IF acc.currentParagraph # <<>>
                         THEN acc.markdown \o acc.currentParagraph \o <<NL, NL>>
                         ELSE acc.markdown]

RECURSIVE RewriteSections(_, _, _)
RewriteSections(out, sections, config) ==
  IF sections = <<>> THEN out
  ELSE RewriteSections(RewriteSection(out, Head(sections), config), Tail(sections), config)

processDocument(t, config) ==
  LET out == RewriteSections([error |-> "none", markdown |-> <<>>], SplitSections(t), config)
  IN  [out EXCEPT !.markdown = Trim(@)]

\* the configuration the page starts with
DefaultConfig ==
  [headingDepth |-> 2, listStyle |-> "bullet", paragraphSpacing |-> "single",
   emphasisStyle |-> "asterisk", codeBlockStyle |-> "fenced"]

\* the documented enumerations of StructureConfig
ListStyles == {"bullet", "numbered"}
ParagraphSpacings == {"single", "double"}
EmphasisStyles == {"asterisk", "underscore"}
CodeBlockStyles == {"indented", "fenced"}

ValidConfig(c) ==
  /\ c.listStyle \in ListStyles
  /\ c.paragraphSpacing \in ParagraphSpacings
  /\ c.emphasisStyle \in EmphasisStyles
  /\ c.codeBlockStyle \in CodeBlockStyles

\* no call made yet
NoResult == [error |-> "none", markdown |-> <<>>]

(***************************************************************************)
(* The inputs: every text of at most MaxLines lines drawn from Catalogue,  *)
(* and the example texts.                                                  *)
(***************************************************************************)
MaxLines == 3

Catalogue ==
  {<<>>,
   <<BT,BT,BT>>,
   <<"p">>,
   <<" ","c">>,
   <<"2","."," ","b">>,
   <<"=","=","=">>,
   <<">">>,
   <<">"," ","q">>,
   <<"-"," ">>,
   <<"#"," ","T">>,
   <<"*"," ","a"," ","*">>,
   <<"-","-","-">>,
   <<"H","i">>}

\* lines at the length boundary of the title-case rule: 59, 60 and 61
\* characters, and 58 characters followed by three tabs
Line59 ==
  <<"A","a"," ","A","a"," ","A","a"," ","A","a"," ","A","a"," ","A","a"," ","A","a"," ","A","a"," ","A","a"," ","A","a"," ","A","a"," ","A","a"," ","A","a"," ","b","b"," ","b","b"," ","b","b"," ","b","b"," ","b","b"," ","b","b"," ","b","b">>

Line60 ==
  <<"A","a"," ","A","a"," ","A","a"," ","A","a"," ","A","a"," ","A","a"," ","A","a"," ","A","a"," ","A","a"," ","A","a"," ","A","a"," ","A","a"," ","A","a"," ","b","b"," ","b","b"," ","b","b"," ","b","b"," ","b","b"," ","b","b"," ","b","b","b">>

Line61 ==
  <<"A","a"," ","A","a"," ","A","a"," ","A","a"," ","A","a"," ","A","a"," ","A","a"," ","A","a"," ","A","a"," ","A","a"," ","A","a"," ","A","a"," ","A","a"," ","b","b"," ","b","b"," ","b","b"," ","b","b"," ","b","b"," ","b","b","b"," ","b","b","b">>

Line58Padded ==
  <<"A","a"," ","A","a"," ","A","a"," ","A","a"," ","A","a"," ","A","a"," ","A","a"," ","A","a"," ","A","a"," ","A","a"," ","A","a"," ","A","a"," ","A","a"," ","A","a"," ","A","a"," ","A","a"," ","A","a"," ","A","a"," ","b","b","b","b",TAB,TAB,TAB>>

ExampleTexts ==
  {<<Fence, <<" ", "c">>, <<"#", " ", "T">>, Fence>>,
   <<<<"p">>, Fence, <<"x">>, <<>>, <<"-", " ", "y">>, Fence, <<"q">>>>,
   <<<<"-", FF, "a">>, <<"U+00A0", "a", "U+00A0">>>>,
   <<<<"#", " ", "a", LS, "b">>>>,
   <<<<"x", PS, "#", " ", "T">>>>,
   <<<<"1",")"," ","n">>, <<"a",")"," ","x">>, <<"(","2",")"," ","y">>>>,
   <<Line59>>, <<Line60>>, <<Line61>>, <<Line58Padded>>,
   <<Line59, Line60, Line61>>,
   <<<<"A","a"," ","B","b"," ","C","c"," ","d","d"," ","e","e">>>>,
   <<<<"T","i","t","l","e">>, <<"=","=","=">>>>,
   <<<<"T","i","t","l","e">>, <<"-","-","-">>>>,
   <<<<"#"," ","T","i","t","l","e">>>>,
   <<<<"-"," ","i","t","e","m"," ","o","n","e">>, <<"-"," ","i","t","e","m"," ","t","w","o">>>>,
   <<<<"1","."," ","f","i","r","s","t">>, <<"2","."," ","s","e","c","o","n","d">>>>,
   <<<<BT,BT,BT>>, <<"c","o","d","e"," ","l","i","n","e">>, <<BT,BT,BT>>>>,
   <<<<"p">>, <<BT,BT,BT>>, <<"x">>, <<BT,BT,BT>>, <<"p">>>>,
   <<<<"a","."," ","x">>, <<"(","1",")"," ","x">>, <<"r","/","x">>, <<"U","s","e","r","s"," ","i","n","f","o">>, <<"p">>>>}

Texts ==
  {Join(ls, NL) : ls \in UNION {[1..n -> Catalogue] : n \in 1..MaxLines} \cup ExampleTexts}

(***************************************************************************)
(* The state: the input, the loop of analyzeTextStructure (lines, index    *)
(* and the loop's locals), then the caller's results.                      *)
(***************************************************************************)
VARIABLES
  pc,                \* where the caller is
  text,              \* the input text
  lines,             \* text.split('\n')
  index,             \* the 0-based index of the next line of the forEach
  blocks, currentBlock, inCodeBlock, codeBlockContent,
  srcLines, currentSrc, codeSrc,   \* source lines of the blocks (for the properties)
  markdown,          \* transform(text)
  valid,             \* validateMarkdown(markdown)
  markdownAgain,     \* transform(markdown)
  config,            \* the configuration of the call of processDocument
  result,            \* processDocument(text, config)
  config2,           \* the configuration of a second call, on the first output
  result2            \* processDocument(result.markdown, config2)

analyzerVars ==
  <<blocks, currentBlock, inCodeBlock, codeBlockContent, srcLines, currentSrc, codeSrc>>

callerVars == <<markdown, valid, markdownAgain>>

rewriterVars == <<config, result, config2, result2>>

vars == <<pc, text, lines, index, analyzerVars, callerVars, rewriterVars>>

\* the loop's locals as the record the branches work on
Locals ==
  [blocks |-> blocks, currentBlock |-> currentBlock, inCodeBlock |-> inCodeBlock,
   codeBlockContent |-> codeBlockContent, srcLines |-> srcLines,
   currentSrc |-> currentSrc, codeSrc |-> codeSrc]

SetLocals(st) ==
  /\ blocks' = st.blocks
  /\ currentBlock' = st.currentBlock
  /\ inCodeBlock' = st.inCodeBlock
  /\ codeBlockContent' = st.codeBlockContent
  /\ srcLines' = st.srcLines
  /\ currentSrc' = st.currentSrc
  /\ codeSrc' = st.codeSrc

Init ==
  /\ text \in Texts
  /\ lines = Split(text, NL)
  /\ index = 0
  /\ pc = "analyze"
  /\ blocks = InitialState.blocks
  /\ currentBlock = InitialState.currentBlock
  /\ inCodeBlock = InitialState.inCodeBlock
  /\ codeBlockContent = InitialState.codeBlockContent
  /\ srcLines = InitialState.srcLines
  /\ currentSrc = InitialState.currentSrc
  /\ codeSrc = InitialState.codeSrc
  /\ markdown = <<>>
  /\ valid = FALSE
  /\ markdownAgain = <<>>
  /\ config = DefaultConfig
  /\ result = NoResult
  /\ config2 = DefaultConfig
  /\ result2 = NoResult

\* the loop is at a line that takes the given branch
AtLine(branch) ==
  /\ pc = "analyze"
  /\ index < Len(lines)
  /\ LineBranch(inCodeBlock, lines, index) = branch

NextLine ==
  /\ index' = index + 1
  /\ UNCHANGED <<pc, text, lines, callerVars, rewriterVars>>

OpenFenceStep ==
  /\ AtLine("openFence")
  /\ SetLocals(OpenFence(Locals, index))
  /\ NextLine

CloseFenceStep ==
  /\ AtLine("closeFence")
  /\ SetLocals(CloseFence(Locals, index))
  /\ NextLine

CodeStep ==
  /\ AtLine("code")
  /\ SetLocals(AccumulateCode(Locals, lines[index + 1], index))
  /\ NextLine

BlankStep ==
  /\ AtLine("blank")
  /\ SetLocals(FlushOnBlank(Locals))
  /\ NextLine

QuoteStep ==
  /\ AtLine("quote")
  /\ SetLocals(QuoteLine(Locals, Trim(lines[index + 1]), index))
  /\ NextLine

ListStep ==
  /\ AtLine("list")
  /\ SetLocals(ListLine(Locals, lines[index + 1], index))
  /\ NextLine

HeadingStep ==
  /\ AtLine("heading")
  /\ SetLocals(HeadingLine(Locals, analyzeHeading(Trim(lines[index + 1]), lines, index),
                           index))
  /\ NextLine

ParagraphStep ==
  /\ AtLine("paragraph")
  /\ SetLocals(ParagraphLine(Locals, Trim(lines[index + 1]), index))
  /\ NextLine

\* the end of the loop: the open block is pushed and the blocks returned
Finish ==
  /\ pc = "analyze"
  /\ index = Len(lines)
  /\ SetLocals(FinishAnalysis(Locals))
  /\ pc' = "analyzed"
  /\ UNCHANGED <<text, lines, index, callerVars, rewriterVars>>

\* transform returns blocksToMarkdown(blocks)
Render ==
  /\ pc = "analyzed"
  /\ markdown' = blocksToMarkdown(blocks)
  /\ pc' = "rendered"
  /\ UNCHANGED <<text, lines, index, analyzerVars, valid, markdownAgain, rewriterVars>>

\* the caller validates the output
Validate ==
  /\ pc = "rendered"
  /\ valid' = validateMarkdown(markdown)
  /\ pc' = "validated"
  /\ UNCHANGED <<text, lines, index, analyzerVars, markdown, markdownAgain, rewriterVars>>

\* the caller transforms the output once more
TransformAgain ==
  /\ pc = "validated"
  /\ markdownAgain' = transform(markdown)
  /\ pc' = "done"
  /\ UNCHANGED <<text, lines, index, analyzerVars, markdown, valid, rewriterVars>>

Next ==
  \/ OpenFenceStep
  \/ CloseFenceStep
  \/ CodeStep
  \/ BlankStep
  \/ QuoteStep
  \/ ListStep
  \/ HeadingStep
  \/ ParagraphStep
  \/ Finish
  \/ Render
  \/ Validate
  \/ TransformAgain

Spec == Init /\ [][Next]_vars

(***************************************************************************)
(* The rewriter's inputs and its state machine: one call of                *)
(* processDocument, then a second call on its output under the same        *)
(* configuration with the emphasis style chosen anew.                      *)
(***************************************************************************)
MaxRewriteLines == 2

RewriteCatalogue ==
  {<<>>,
   <<"_","w","_">>,
   <<"*","w","*">>,
   <<"_","_","w","_","_">>,
   <<"*","*","w","*","*">>,
   <<"I","n","t","r","o",":">>,
   <<"1","."," ","a">>,
   <<"-"," ","b">>,
   <<"t","e","x","t">>,
   <<" "," "," "," ","c">>}

RewriteExamples ==
  {<<<<"U+00A0", "a", VT>>, <<"1", ".", "U+3000", "b", BOM>>>>,
   <<<<"_","w","o","r","d","_">>>>,
   <<<<"*","w","o","r","d","*">>>>,
   <<<<"a">>, <<>>, <<"b">>>>,
   <<<<"I","n","t","r","o",":">>, <<"t","e","x","t"," ","o","n","e">>, <<>>, <<"1","."," ","a">>, <<"-"," ","b">>>>,
   <<<<"x">>, <<" "," "," "," ","c">>, <<"y">>>>,
   <<<<"a">>, <<"H","e","l","l","o",".">>, <<"b">>>>,
   <<<<"p",BT,BT,BT>>, <<>>, <<"q">>>>,
   <<<<TAB,"c">>, <<"d">>>>}

RewriteTexts ==
  {Join(ls, NL) : ls \in UNION {[1..n -> RewriteCatalogue] : n \in 1..MaxRewriteLines}
                         \cup RewriteExamples}

\* heading depths: the slider's 1 to 6 and values outside it
HeadingDepths == {-1, 0, 2, 3, 7}

\* a value outside every enumeration
Other == "other"

Configs ==
  [headingDepth : HeadingDepths, listStyle : ListStyles,
   paragraphSpacing : ParagraphSpacings, emphasisStyle : EmphasisStyles,
   codeBlockStyle : CodeBlockStyles]
  \cup {[DefaultConfig EXCEPT !.listStyle = Other],
        [DefaultConfig EXCEPT !.paragraphSpacing = Other],
        [DefaultConfig EXCEPT !.emphasisStyle = Other],
        [DefaultConfig EXCEPT !.codeBlockStyle = Other]}

RewriteInit ==
  /\ text \in RewriteTexts
  /\ config \in Configs
  /\ pc = "rewrite"
  /\ lines = <<>>
  /\ index = 0
  /\ blocks = InitialState.blocks
  /\ currentBlock = InitialState.currentBlock
  /\ inCodeBlock = InitialState.inCodeBlock
  /\ codeBlockContent = InitialState.codeBlockContent
  /\ srcLines = InitialState.srcLines
  /\ currentSrc = InitialState.currentSrc
  /\ codeSrc = InitialState.codeSrc
  /\ markdown = <<>>
  /\ valid = FALSE
  /\ markdownAgain = <<>>
  /\ result = NoResult
  /\ config2 = config
  /\ result2 = NoResult

\* the caller's processDocument(inputText, config)
Rewrite ==
  /\ pc = "rewrite"
  /\ result' = processDocument(text, config)
  /\ pc' = "rewritten"
  /\ UNCHANGED <<text, lines, index, analyzerVars, callerVars, config, config2, result2>>

\* a second call, on the output of the first
RewriteAgain ==
  /\ pc = "rewritten"
  /\ result.error = "none"
  /\ \E e \in EmphasisStyles :
       /\ config2' = [config EXCEPT !.emphasisStyle = e]
       /\ result2' = processDocument(result.markdown, config2')
  /\ pc' = "rewrittenAgain"
  /\ UNCHANGED <<text, lines, index, analyzerVars, callerVars, config, result>>

RewriteNext ==
  \/ Rewrite
  \/ RewriteAgain

RewriteSpec == RewriteInit /\ [][RewriteNext]_vars

(***************************************************************************)
(* Vocabulary of the properties, defined on the input text alone.          *)
(***************************************************************************)
\* the analysis has returned
Analyzed == pc # "analyze"

IsFenceLine(line) == StartsWith(Trim(line), Fence)

\* the line at 0-based index k is no fence line and lies outside every fence:
\* an even number of fence lines precedes it
OutsideFence(ls, k) ==
  /\ ~IsFenceLine(ls[k + 1])
  /\ Cardinality({j \in 1..k : IsFenceLine(ls[j])}) % 2 = 0

\* 'N. text' or 'N) text': a run of digits, the marker, a space, some text
IsNumberedItemLine(line) ==
  LET nd == RunLength(line, Digit)
      rest == Drop(line, nd)
  IN  nd >= 1 /\ Len(rest) >= 3 /\ rest[1] \in {".", ")"} /\ rest[2] = " "

MarkerNumber(line) == DigitsValue(line, 0)

\* a line that is not blank, no fence, no quote, no list item and no ATX heading
IsPlainLine(line) ==
  /\ Trim(line) # <<>>
  /\ ~IsFenceLine(line)
  /\ ~StartsWith(Trim(line), <<">">>)
  /\ ~detectListType(line).found
  /\ AtxMatch(Trim(line)).hashes = 0

\* the blocks built from the line at 0-based index k alone
BlocksOfLine(k) == {i \in DOMAIN blocks : srcLines[i] = {k}}

(***************************************************************************)
(* C1: the returned blocks are in document order: a block built from       *)
(* source lines that all precede the source lines of another block comes   *)
(* before it in the returned sequence.                                     *)
(***************************************************************************)
C1_DocumentOrder ==
  Analyzed =>
    \A i, j \in DOMAIN blocks :
      (\A a \in srcLines[i] : \A b \in srcLines[j] : a < b) => i < j

(***************************************************************************)
(* C2: when the input ends in code mode, a code block holding everything   *)
(* accumulated since the opening fence is among the returned blocks.       *)
(***************************************************************************)
C2_UnterminatedFenceFlushed ==
  (Analyzed /\ inCodeBlock) =>
    \E i \in DOMAIN blocks :
      /\ blocks[i].type = "code"
      /\ blocks[i].content = codeBlockContent
      /\ srcLines[i] = codeSrc

(***************************************************************************)
(* C3: every line 'N. text' or 'N) text' outside a code fence yields a     *)
(* numbered list-item block whose listIndex is N.                          *)
(***************************************************************************)
C3_NumberedIndexParsed ==
  Analyzed =>
    \A k \in 0..(Len(lines) - 1) :
      (OutsideFence(lines, k) /\ IsNumberedItemLine(lines[k + 1])) =>
        \E i \in BlocksOfLine(k) :
          /\ blocks[i].type = "list"
          /\ blocks[i].metadata.listType = "numbered"
          /\ blocks[i].metadata.listIndex = <<MarkerNumber(lines[k + 1])>>

(***************************************************************************)
(* C4: a plain line T followed by a line of three or more '=' (or '-')     *)
(* yields a level-1 (level-2) heading T, and the underline line yields no  *)
(* block and no content of any block.                                      *)
(***************************************************************************)
C4_SetextConsumesUnderline ==
  Analyzed =>
    \A k \in 0..(Len(lines) - 2) : \A u \in {<<"=", 1>>, <<"-", 2>>} :
      (OutsideFence(lines, k) /\ IsPlainLine(lines[k + 1])
         /\ IsUnderline(lines[k + 2], u[1])) =>
        /\ \E i \in BlocksOfLine(k) :
             /\ blocks[i].type = "heading"
             /\ blocks[i].metadata.level = <<u[2]>>
             /\ blocks[i].content = Trim(lines[k + 1])
        /\ \A i \in DOMAIN blocks : (k + 1) \notin srcLines[i]

(***************************************************************************)
(* C5: every block has non-empty content, except a code block whose        *)
(* opening fence is immediately followed by its closing fence.             *)
(***************************************************************************)
C5_NonEmptyContent ==
  \A i \in DOMAIN blocks :
    blocks[i].content = <<>> =>
      (blocks[i].type = "code" /\ Cardinality(srcLines[i]) = 2)

(***************************************************************************)
(* C6: a paragraph never joins two plain lines that have another line      *)
(* (blank, of another type, or fenced code) between them: the source lines *)
(* of a paragraph block are consecutive.                                   *)
(***************************************************************************)
C6_ParagraphContiguous ==
  \A i \in DOMAIN blocks :
    blocks[i].type = "paragraph" =>
      \A a, b \in srcLines[i] : \A c \in 0..(Len(lines) - 1) :
        (a < c /\ c < b) => c \in srcLines[i]

(***************************************************************************)
(* C7: for a text in which the fence occurs only at the start of fence     *)
(* lines, transforming the output of transform gives that output again.    *)
(***************************************************************************)
NoFenceInsideCode(ls) ==
  \A i \in DOMAIN ls :
    CountOccurrences(ls[i], Fence) > 0 =>
      (IsFenceLine(ls[i]) /\ CountOccurrences(ls[i], Fence) = 1)

C7_TransformIdempotent ==
  (pc = "done" /\ NoFenceInsideCode(lines)) => markdownAgain = markdown

(***************************************************************************)
(* C8: a text with an ATX heading line, an even number of '*' and an even  *)
(* number of fences transforms to Markdown that validateMarkdown accepts.  *)
(***************************************************************************)
HasAtxHeadingLine(ls) == \E i \in DOMAIN ls : AtxMatch(Trim(ls[i])).hashes > 0

C8_ValidAfterTransform ==
  (pc \in {"validated", "done"}
     /\ HasAtxHeadingLine(lines)
     /\ CountOccurrences(text, <<"*">>) % 2 = 0
     /\ CountOccurrences(text, Fence) % 2 = 0) => valid

(***************************************************************************)
(* C9: a call of processDocument with a configuration whose listStyle,     *)
(* paragraphSpacing, emphasisStyle or codeBlockStyle is outside its        *)
(* enumeration fails with InvalidConfiguration and returns no Markdown.    *)
(***************************************************************************)
C9_InvalidConfigurationRejected ==
  (pc \in {"rewritten", "rewrittenAgain"} /\ ~ValidConfig(config)) =>
    (result.error = "InvalidConfiguration" /\ result.markdown = <<>>)

(***************************************************************************)
(* C10: for a word w without '_' or '*', processDocument with              *)
(* emphasisStyle asterisk turns '_w_' into '*w*', and processDocument with *)
(* emphasisStyle underscore turns that result into '_w_' again.            *)
(***************************************************************************)
\* the character d, a non-empty word without '_', '*' or white space, then d
IsEmphasizedWord(t, d) ==
  /\ Len(t) >= 3
  /\ t[1] = d
  /\ t[Len(t)] = d
  /\ \A i \in 2..(Len(t) - 1) : t[i] \notin {"_", "*"} \cup WhiteSpace

\* t with its first and last character replaced by d
Redelimited(t, d) == [i \in DOMAIN t |-> IF i \in {1, Len(t)} THEN d ELSE t[i]]

C10_SingleEmphasisRoundTrip ==
  (pc = "rewrittenAgain" /\ ValidConfig(config) /\ IsEmphasizedWord(text, "_")
     /\ config.emphasisStyle = "asterisk" /\ config2.emphasisStyle = "underscore") =>
    /\ result = [error |-> "none", markdown |-> Redelimited(text, "*")]
    /\ result2 = [error |-> "none", markdown |-> text]

(***************************************************************************)
(* C11: every run of lines enclosed by an opening and a closing fence line *)
(* yields exactly one code block, whose content is each enclosed line      *)
(* verbatim followed by a newline, in order; the enclosed lines are part   *)
(* of no other block.                                                      *)
(***************************************************************************)
\* the 0-based indices o < c of an opening fence line and of its closing one
IsFencePair(ls, o, c) ==
  /\ o < c
  /\ IsFenceLine(ls[o + 1])
  /\ IsFenceLine(ls[c + 1])
  /\ Cardinality({j \in 1..o : IsFenceLine(ls[j])}) % 2 = 0
  /\ \A j \in (o + 1)..(c - 1) : ~IsFenceLine(ls[j + 1])

\* the lines at the 0-based indices from..to, each followed by a newline
RECURSIVE Verbatim(_, _, _)
Verbatim(ls, from, to) ==
  IF from > to THEN <<>> ELSE ls[from + 1] \o <<NL>> \o Verbatim(ls, from + 1, to)

C11_FencedRunIsOneCodeBlock ==
  Analyzed =>
    \A o, c \in 0..(Len(lines) - 1) :
      IsFencePair(lines, o, c) =>
        /\ Cardinality({i \in DOMAIN blocks : srcLines[i] = o..c}) = 1
        /\ \A i \in DOMAIN blocks :
             IF srcLines[i] = o..c
             THEN /\ blocks[i].type = "code"
                  /\ blocks[i].content = Verbatim(lines, o + 1, c - 1)
             ELSE srcLines[i] \cap (o..c) = {}

\* a fenced run of two lines has given one code block holding both lines, each
\* verbatim and followed by a newline, in their order
C11_Witness ==
  /\ Analyzed
  /\ \E i \in DOMAIN blocks :
       /\ blocks[i].type = "code"
       /\ blocks[i].content = <<" ", "c", NL, "#", " ", "T", NL>>
       /\ Cardinality(srcLines[i]) = 4

(***************************************************************************)
(* C12: a line with no other markers in which more than 60% of the         *)
(* space-separated words are capitalized yields a level-2 heading when it  *)
(* is shorter than 60 characters and no heading when it has 60 characters  *)
(* or more.  C12_TitleCaseBoundaryRaw measures the line as it stands in    *)
(* the text, C12_TitleCaseBoundary after trimming its surrounding white    *)
(* space.                                                                  *)
(***************************************************************************)
\* first letter uppercase and the rest lowercase, or all uppercase
IsCapitalizedWord(word) ==
  /\ word # <<>>
  /\ \/ word[1] \in Upper /\ \A i \in 2..Len(word) : word[i] \in Lower
     \/ AllIn(word, Upper)

MostlyCapitalized(line) ==
  LET words == Split(line, " ")
  IN  10 * Cardinality({i \in DOMAIN words : IsCapitalizedWord(words[i])})
        > 6 * Len(words)

\* the line at 0-based index k is outside every fence, is plain, is not
\* underlined by the next line and matches no entry of the pattern table
NoOtherMarkers(ls, k) ==
  /\ OutsideFence(ls, k)
  /\ IsPlainLine(ls[k + 1])
  /\ k + 1 < Len(ls) => ~(IsUnderline(ls[k + 2], "=") \/ IsUnderline(ls[k + 2], "-"))
  /\ \A i \in DOMAIN metadataPatterns(Trim(ls[k + 1])) :
       ~metadataPatterns(Trim(ls[k + 1]))[i][1]

TitleCaseLine(k) == NoOtherMarkers(lines, k) /\ MostlyCapitalized(lines[k + 1])

IsLevel2Heading(k) ==
  \E i \in BlocksOfLine(k) :
    /\ blocks[i].type = "heading"
    /\ blocks[i].metadata.level = <<2>>
    /\ blocks[i].content = Trim(lines[k + 1])

IsNoHeading(k) == \A i \in DOMAIN blocks : k \in srcLines[i] => blocks[i].type # "heading"

C12_TitleCaseBoundaryRaw ==
  Analyzed =>
    \A k \in 0..(Len(lines) - 1) :
      TitleCaseLine(k) =>
        IF Len(lines[k + 1]) < 60 THEN IsLevel2Heading(k) ELSE IsNoHeading(k)

C12_TitleCaseBoundary ==
  Analyzed =>
    \A k \in 0..(Len(lines) - 1) :
      TitleCaseLine(k) =>
        IF Len(Trim(lines[k + 1])) < 60 THEN IsLevel2Heading(k) ELSE IsNoHeading(k)

\* a 59-character line has become a level-2 heading and a 61-character line of
\* the same text has not
C12_Witness ==
  /\ Analyzed
  /\ \E k1, k2 \in 0..(Len(lines) - 1) :
       /\ TitleCaseLine(k1) /\ Len(lines[k1 + 1]) = 59 /\ IsLevel2Heading(k1)
       /\ TitleCaseLine(k2) /\ Len(lines[k2 + 1]) = 61 /\ IsNoHeading(k2)

(***************************************************************************)
(* C13: for every configuration, processDocument does not throw and the    *)
(* heading line it emits for a text that opens with a header line begins   *)
(* with one, two or three '#' characters, a space and the header.          *)
(***************************************************************************)
Rewritten == pc \in {"rewritten", "rewrittenAgain"}

\* the first line of the text
FirstLine(t) == Split(t, NL)[1]

C13_HeadingLevelClamped ==
  (Rewritten /\ HeaderTest(FirstLine(text))) =>
    /\ result.error = "none"
    /\ \E k \in 1..3 :
         StartsWith(result.markdown,
                    Repeat("#", k) \o <<" ">> \o Trim(FirstLine(text)))

(***************************************************************************)
(* C14: in the Markdown that blocksToMarkdown produces, the line of a list *)
(* block is followed by a blank line when the next block is not a list     *)
(* block, and directly by the next item when it is one.                    *)
(***************************************************************************)
Rendered == pc \in {"rendered", "validated", "done"}

\* the length of the Markdown emitted for the first i blocks
EmittedLength(i) ==
  Len(RenderFrom([markdown |-> <<>>, listType |-> "null", listStarted |-> FALSE],
                 SubSeq(blocks, 1, i)).markdown)

C14_BlankLineAfterList ==
  Rendered =>
    \A i \in 1..(Len(blocks) - 1) :
      blocks[i].type = "list" =>
        /\ markdown[EmittedLength(i)] = NL
        /\ markdown[EmittedLength(i) + 1] = NL <=> blocks[i + 1].type # "list"

(***************************************************************************)
(* C15: two paragraphs separated by a blank line in the input leave        *)
(* processDocument separated by exactly one blank line when                *)
(* paragraphSpacing is single and by exactly two when it is double.        *)
(***************************************************************************)
\* a non-empty run of lowercase letters
IsLowerWord(s) == s # <<>> /\ AllIn(s, Lower)

\* the text is two one-word paragraphs with one blank line between them
IsTwoParagraphs(t) ==
  LET ls == Split(t, NL)
  IN  Len(ls) = 3 /\ IsLowerWord(ls[1]) /\ ls[2] = <<>> /\ IsLowerWord(ls[3])

C15_ParagraphSpacing ==
  (Rewritten /\ ValidConfig(config) /\ IsTwoParagraphs(text)) =>
    LET ls == Split(text, NL)
        blankLines == IF config.paragraphSpacing = "double" THEN 2 ELSE 1
    IN  /\ result.error = "none"
        /\ result.markdown = ls[1] \o Repeat(NL, blankLines + 1) \o ls[3]

(***************************************************************************)
(* C16: with codeBlockStyle fenced, every input line that starts with four *)
(* spaces or a tab leaves processDocument as a line of its own, its indent *)
(* removed, between an opening and a closing fence line; with              *)
(* codeBlockStyle indented the output has no more fences than the input.   *)
(***************************************************************************)
\* line j of ls lies between an opening fence line and its closing one
InsideFence(ls, j) ==
  /\ Cardinality({i \in 1..(j - 1) : ls[i] = Fence}) % 2 = 1
  /\ \E i \in (j + 1)..Len(ls) : ls[i] = Fence

C16_IndentedCodeFenced ==
  (Rewritten /\ ValidConfig(config)) =>
    LET inLs == Split(text, NL)
        outLs == Split(result.markdown, NL)
    IN  IF config.codeBlockStyle = "fenced"
        THEN \A k \in DOMAIN inLs :
               (IndentMarker(inLs[k]) > 0 /\ Trim(inLs[k]) # <<>>) =>
                 \E j \in DOMAIN outLs :
                   /\ outLs[j] = Drop(inLs[k], IndentMarker(inLs[k]))
                   /\ InsideFence(outLs, j)
        ELSE CountOccurrences(result.markdown, Fence) <= CountOccurrences(text, Fence)

(***************************************************************************)
(* C17: for a word x without '_' or '*', processDocument with              *)
(* emphasisStyle asterisk turns '__x__' into '**x**', and with             *)
(* emphasisStyle underscore turns '**x**' into '__x__'.                    *)
(***************************************************************************)
\* twice the character d, a non-empty word without '_', '*' or white space,
\* then twice d
IsStrongWord(t, d) ==
  /\ Len(t) >= 5
  /\ \A i \in {1, 2, Len(t) - 1, Len(t)} : t[i] = d
  /\ \A i \in 3..(Len(t) - 2) : t[i] \notin {"_", "*"} \cup WhiteSpace

\* t with its first two and last two characters replaced by d
StrongRedelimited(t, d) ==
  [i \in DOMAIN t |-> IF i \in {1, 2, Len(t) - 1, Len(t)} THEN d ELSE t[i]]

C17_StrongEmphasisTranslated ==
  (Rewritten /\ ValidConfig(config)) =>
    /\ (config.emphasisStyle = "asterisk" /\ IsStrongWord(text, "_")) =>
         result = [error |-> "none", markdown |-> StrongRedelimited(text, "*")]
    /\ (config.emphasisStyle = "underscore" /\ IsStrongWord(text, "*")) =>
         result = [error |-> "none", markdown |-> StrongRedelimited(text, "_")]

(***************************************************************************)
(* C18: a line outside every fence that one of the four list patterns      *)
(* recognises yields a list block whose listType is numbered exactly when  *)
(* the line starts with optional white space, digits and '.' or ')';       *)
(* lettered and parenthesised markers yield listType bullet and no         *)
(* listIndex.                                                              *)
(***************************************************************************)
\* optional white space, one or more digits, then '.' or ')'
HasDigitsMarker(line) ==
  \E w \in 0..Len(line) : \E d \in 1..Len(line) :
    /\ w + d < Len(line)
    /\ \A i \in 1..w : line[i] \in WhiteSpace
    /\ \A i \in (w + 1)..(w + d) : line[i] \in Digit
    /\ line[w + d + 1] \in {".", ")"}

\* 'a. text' or 'a) text': one letter, the marker, a space
HasLetterMarker(line) ==
  Len(line) >= 3 /\ line[1] \in Letter /\ line[2] \in {".", ")"} /\ line[3] = " "

\* '(1) text': digits in parentheses, a space
HasParenthesizedMarker(line) ==
  /\ line # <<>> /\ Head(line) = "("
  /\ LET nd == RunLength(Tail(line), Digit)
     IN  nd >= 1 /\ Len(line) >= nd + 3 /\ line[nd + 2] = ")" /\ line[nd + 3] = " "

\* the list block built from the line at 0-based index k has the given type
ListBlockOfLine(k, type) ==
  \E i \in BlocksOfLine(k) :
    /\ blocks[i].type = "list"
    /\ blocks[i].metadata.listType = type
    /\ type = "bullet" => blocks[i].metadata.listIndex = <<>>

C18_NumberedIffDigitsMarker ==
  Analyzed =>
    \A k \in 0..(Len(lines) - 1) :
      (OutsideFence(lines, k) /\ detectListType(lines[k + 1]).found) =>
        ListBlockOfLine(k, IF HasDigitsMarker(lines[k + 1]) THEN "numbered" ELSE "bullet")

\* a digits marker has given a numbered item, a lettered and a parenthesised
\* marker bullet items
C18_Witness ==
  /\ Analyzed
  /\ \E k1, k2, k3 \in 0..(Len(lines) - 1) :
       /\ HasDigitsMarker(lines[k1 + 1]) /\ ListBlockOfLine(k1, "numbered")
       /\ HasLetterMarker(lines[k2 + 1]) /\ ListBlockOfLine(k2, "bullet")
       /\ HasParenthesizedMarker(lines[k3 + 1]) /\ ListBlockOfLine(k3, "bullet")

(***************************************************************************)
(* C19: while the lines are processed, a fence line that enters code mode, *)
(* a line processed in code mode and the fence line that leaves code mode  *)
(* leave the open block unchanged; the first two append no block and the   *)
(* last appends exactly the code block; a non-fence line in code mode      *)
(* changes the code accumulator only.                                      *)
(***************************************************************************)
\* the line about to be processed is handled by the code-mode branches
AtCodeModeLine ==
  /\ pc = "analyze"
  /\ index < Len(lines)
  /\ inCodeBlock \/ IsFenceLine(lines[index + 1])

CodeModeFrame ==
  /\ currentBlock' = currentBlock
  /\ IF IsFenceLine(lines[index + 1])
     THEN IF inCodeBlock
          THEN /\ ~inCodeBlock'
               /\ blocks' = Append(blocks, MkBlock("code", codeBlockContent, NoMeta))
          ELSE /\ inCodeBlock'
               /\ blocks' = blocks
               /\ codeBlockContent' = codeBlockContent
     ELSE /\ inCodeBlock'
          /\ blocks' = blocks
          /\ codeBlockContent' = codeBlockContent \o lines[index + 1] \o <<NL>>

C19_CodeModeFrame == [][AtCodeModeLine => CodeModeFrame]_vars

\* a paragraph was open when code mode was entered and is still open, with
\* the same source lines, after the code block has been appended
C19_Witness ==
  /\ pc = "analyze"
  /\ ~inCodeBlock
  /\ currentBlock.type = "paragraph"
  /\ Len(blocks) = 1
  /\ blocks[1].type = "code"
  /\ blocks[1].content # <<>>
  /\ \A a \in currentSrc : \A b \in srcLines[1] : a < b

(***************************************************************************)
(* C20: after any prefix of the lines the open block, if there is one, is  *)
(* a paragraph or a quote; a list, heading or code block is appended to    *)
(* the blocks in the step that processes the line creating it; and the     *)
(* step that appends a heading leaves no open block.                       *)
(***************************************************************************)
OpenBlockKind == currentBlock.type \in {"null", "paragraph", "quote"}

\* the positions of the blocks appended by the step
Appended == (Len(blocks) + 1)..Len(blocks')

AppendedWhenCreated ==
  \A i \in Appended :
    blocks'[i].type \in {"list", "heading", "code"} =>
      /\ pc = "analyze"
      /\ index < Len(lines)
      /\ index \in srcLines'[i]
      /\ \A k \in srcLines'[i] : k <= index

HeadingLeavesNoOpenBlock ==
  (\E i \in Appended : blocks'[i].type = "heading") => currentBlock' = NoBlock

C20_OpenBlockDiscipline ==
  /\ []OpenBlockKind
  /\ [][AppendedWhenCreated /\ HeadingLeavesNoOpenBlock]_vars

\* a heading line has pushed the open paragraph or quote and then the heading,
\* and has left no open block
C20_Witness ==
  /\ pc = "analyze"
  /\ Len(blocks) >= 2
  /\ blocks[Len(blocks)].type = "heading"
  /\ blocks[Len(blocks) - 1].type \in {"paragraph", "quote"}
  /\ srcLines[Len(blocks)] = {index - 1}
  /\ currentBlock = NoBlock

============================================================================
